---- MODULE Spec2Model ----
(***************************************************************************)
(* Model of the byteracer relay-tower websocket bridge.                    *)
(*                                                                         *)
(*   WebSocketProvider  (relaytower/src/contexts/WebSocketContext.tsx)     *)
(*     the connection effect, connect()/disconnect(), the socket handlers, *)
(*     the 500 ms ping interval, the message switch and the send helpers.  *)
(*   WebSocketStatus    (unnamed/part_000)                                 *)
(*     the older self-contained component: its own socket, pingLoop,       *)
(*     computeSpeed and the gamepad send effect.                           *)
(*                                                                         *)
(* React is modelled at the granularity of one handler per step: a state   *)
(* update, the re-render it causes and the effects whose dependencies      *)
(* changed are one atomic step.  The browser WebSocket is the environment: *)
(* close() moves a CONNECTING/OPEN socket to CLOSING, the close event is   *)
(* delivered later, and an error event is dispatched with readyState       *)
(* already CLOSED and is followed, in the same task, by the close event.   *)
(***************************************************************************)
EXTENDS Integers, Sequences, FiniteSets, TLC

\* ------------------------------------------------------------------ bounds
MaxSockets == 3     \* sockets WebSocketProvider may create in one run
RandomDen == 4      \* Math.random() is drawn from {0, (RandomDen-1)/RandomDen}
MaxNow == 1         \* Date.now() ranges over 0..MaxNow
MaxPayload == 1     \* inbound payloads range over 0..MaxPayload
MaxIndex == 1       \* the device has buttons and axes 0..MaxIndex

\* --------------------------------------------------------------- constants
NullSocket == 0     \* useState<WebSocket | null>(null)
Unit == 1           \* the value of a pressed button; axis readings are -Unit..Unit

Sockets == 1..MaxSockets

\* A nullable value: <<>> is null, <<v>> is the value v.
None == <<>>
Some(v) == <<v>>

\* Strings that are inspected character by character are sequences of
\* one-character strings.
DefaultUrl == <<"h">>                      \* `ws://${hostname}:3001/ws`
UrlInputs == { <<>>, <<" ">>, <<"a">> }    \* "", " ", "a"
SavedUrls == { None, Some(<<"a">>) }       \* localStorage "debug_ws_url"

VARIABLES
    mounted,          \* "initial" | "mounted" | "unmounted"
    status,           \* useState<WebSocketStatus>("connecting")
    socket,           \* useState<WebSocket | null>: the socket the callbacks see
    reconnectTrigger, \* useState(0)
    customWsUrl,      \* useState<string | null>
    debug_ws_url,     \* localStorage item
    pingIntervalRef,  \* socket whose interval the ref holds, or NullSocket
    socketRef,        \* socket the ref holds, or NullSocket
    readyState,       \* per socket: NONE (not created) CONNECTING OPEN CLOSING CLOSED
    wsUrl,            \* per socket: the url it was constructed with
    captured,         \* per socket: the `socket` state its handlers closed over
    timers,           \* sockets whose ping interval is armed
    closeDue,         \* socket whose close event follows its error event, or NullSocket
    now,              \* Date.now()
    called,           \* the context function the latest step called, "" for an event
    wire,             \* frames the latest step transmitted, in order: [sock, name]
    firstSent,        \* per socket: the first frame transmitted on it, or None
    registers,        \* per socket: client_register frames transmitted on it
    opened,           \* sockets that have reached OPEN
    errorSink,        \* logError messages of the latest step
    dispatched,       \* window.dispatchEvent names of the latest step
    pingTime,         \* useState<number | null>
    batteryLevel,     \* useState<number | null>
    sensorData,       \* useState<SensorData | null>
    cameraStatus,     \* useState<CameraStatus | null>
    settings,         \* useState<RobotSettings | null>
    commandResponse,  \* useState<CommandResponse | null>
    \* ---- WebSocketStatus (unnamed/part_000)
    ws_mounted,       \* "initial" | "mounted" | "unmounted"
    ws_status,        \* useState("disconnected")
    ws_pingTime,      \* useState<number | null>(null)
    ws_socket,        \* useState<WebSocket | null>: TRUE once setSocket(ws) ran
    ws_readyState,    \* readyState of the effect's `ws`
    ws_closeDue,      \* the close event that follows an error event is due
    pingLoop,         \* the 500 ms interval is armed
    interval,         \* the gamepad send interval is armed
    loopMappings,     \* the `mappings` the interval's computeSpeed closed over
    selectedGamepadId,\* from useGamepadContext(): None or Some(id)
    mappings,         \* from useGamepadContext(): action -> binding
    buttons,          \* device: button index -> pressed
    axes,             \* device: axis index -> None (unreadable) or Some(value)
    ws_calls          \* ws.send calls of the latest step: [name, outcome, data]

connVars == << status, socket, pingIntervalRef, socketRef, readyState, wsUrl,
               captured, timers >>
slotVars == << pingTime, batteryLevel, sensorData, cameraStatus, settings,
               commandResponse >>
histVars == << firstSent, registers, opened >>
providerVars == << mounted, reconnectTrigger, customWsUrl, debug_ws_url, closeDue,
                  called, wire, histVars, errorSink, dispatched, connVars, slotVars >>
inputVars == << mappings, buttons, axes >>
statusVars == << ws_mounted, ws_status, ws_pingTime, ws_socket, ws_readyState,
                ws_closeDue, pingLoop, interval, loopMappings, selectedGamepadId,
                inputVars, ws_calls >>
vars == << now, providerVars, statusVars >>

\* ----------------------------------------------- gamepad context (inputs)
Actions == {"accelerate", "brake", "turn", "turnCameraX", "turnCameraY", "use"}
Controls == 0..MaxIndex
Binding(type, index) == [type |-> type, index |-> index]
Unbound == Binding("button", -1)
Missing == Binding("missing", -1)          \* mappings[action] is undefined
\* accelerate and brake are rebound over every control, the other actions over
\* control 0
Bindings(a) ==
    IF a \in {"accelerate", "brake"}
    THEN {Unbound, Missing}
         \cup {Binding(ty, i) : ty \in {"button", "axis"}, i \in Controls}
    ELSE {Unbound, Binding("button", 0), Binding("axis", 0)}
AxisReads == {None} \cup {Some(v) : v \in (0 - Unit)..Unit}

\* ------------------------------------------------------------- helpers
Live(rs) == rs \in {"CONNECTING", "OPEN"}

RECURSIVE TrimStart(_)
TrimStart(str) ==
    IF str # <<>> /\ Head(str) = " " THEN TrimStart(Tail(str)) ELSE str

RECURSIVE TrimEnd(_)
TrimEnd(str) ==
    IF str # <<>> /\ str[Len(str)] = " "
    THEN TrimEnd(SubSeq(str, 1, Len(str) - 1))
    ELSE str

Trim(str) == TrimEnd(TrimStart(str))

\* Faulty variant: the override is used whenever it is truthy, blank or not.
ResolveUrl_NoTrim(custom) ==
    IF custom # None /\ custom[1] # <<>> THEN custom[1] ELSE DefaultUrl

\* lines 226-233: customWsUrl && customWsUrl.trim() !== "" ? customWsUrl : default
ResolveUrl(custom) ==
    IF custom # None /\ custom[1] # <<>> /\ Trim(custom[1]) # <<>>
    THEN custom[1]
    ELSE DefaultUrl

\* setStatus on an unmounted component is dropped by React.
SetStatus(v) == IF mounted = "unmounted" THEN status ELSE v

\* Faulty variant: close() is called on an OPEN socket only.
Close_OpenOnly(rs, s) ==
    IF s # NullSocket /\ rs[s] = "OPEN" THEN [rs EXCEPT ![s] = "CLOSING"] ELSE rs

\* socket.close(): lines 205-208, 216-219, 381-384
Close(rs, s) ==
    IF s # NullSocket /\ Live(rs[s]) THEN [rs EXCEPT ![s] = "CLOSING"] ELSE rs

\* The connection the effect reads and writes, as one value.
Conn ==
    [ status |-> status, socket |-> socket, pingIntervalRef |-> pingIntervalRef,
      socketRef |-> socketRef, readyState |-> readyState, wsUrl |-> wsUrl,
      captured |-> captured, timers |-> timers ]

SetConn(c) ==
    /\ status' = c.status
    /\ socket' = c.socket
    /\ pingIntervalRef' = c.pingIntervalRef
    /\ socketRef' = c.socketRef
    /\ readyState' = c.readyState
    /\ wsUrl' = c.wsUrl
    /\ captured' = c.captured
    /\ timers' = c.timers

\* The socket the latest effect run constructed (its closure's `ws`).
LastWs(rs) ==
    IF \A s \in Sockets : rs[s] = "NONE" THEN NullSocket
    ELSE CHOOSE s \in Sockets :
             /\ rs[s] # "NONE"
             /\ \A t \in Sockets : rs[t] # "NONE" => t <= s

\* clearInterval(pingIntervalRef.current); pingIntervalRef.current = null
ClearPing(c) ==
    IF c.pingIntervalRef # NullSocket
    THEN [c EXCEPT !.timers = @ \ {c.pingIntervalRef}, !.pingIntervalRef = NullSocket]
    ELSE c

\* lines 375-385: the cleanup the previous effect run returned
EffectCleanup(c, ws) ==
    LET c1 == ClearPing(c)
    IN  [c1 EXCEPT !.readyState = Close(@, ws)]

\* lines 214-241: the effect body, up to the handlers' registration
EffectBody(c, custom) ==
    LET c1 == IF c.socket # NullSocket
              THEN ClearPing([c EXCEPT !.readyState = Close(@, c.socket)])
              ELSE c
        ws == LastWs(c.readyState) + 1
    IN  [c1 EXCEPT !.status = SetStatus("connecting"),
                   !.readyState = [@ EXCEPT ![ws] = "CONNECTING"],
                   !.wsUrl = [@ EXCEPT ![ws] = ResolveUrl(custom)],
                   !.captured = [@ EXCEPT ![ws] = c.socket],
                   !.socket = ws,
                   !.socketRef = ws]

\* React re-runs the effect: the previous run's cleanup, then the body.
RunEffect(c, custom) ==
    LET ws == LastWs(c.readyState)
    IN  EffectBody(IF ws # NullSocket THEN EffectCleanup(c, ws) ELSE c, custom)

Truthy(str) == str # None /\ str[1] # <<>>

\* lines 397-405: save the url when it changes
SaveUrl(custom) == IF Truthy(custom) THEN custom ELSE debug_ws_url

\* A step of WebSocketProvider that transmits nothing, logs nothing and
\* dispatches nothing.
Quiet ==
    /\ wire' = <<>>
    /\ errorSink' = <<>>
    /\ dispatched' = <<>>
    /\ UNCHANGED << histVars, now, statusVars >>

Init ==
    /\ mounted = "initial"
    /\ status = "connecting"
    /\ socket = NullSocket
    /\ reconnectTrigger = 0
    /\ customWsUrl = None
    /\ debug_ws_url \in SavedUrls
    /\ pingIntervalRef = NullSocket
    /\ socketRef = NullSocket
    /\ readyState = [s \in Sockets |-> "NONE"]
    /\ wsUrl = [s \in Sockets |-> <<>>]
    /\ captured = [s \in Sockets |-> NullSocket]
    /\ timers = {}
    /\ closeDue = NullSocket
    /\ now = 0
    /\ called = ""
    /\ wire = <<>>
    /\ firstSent = [s \in Sockets |-> None]
    /\ registers = [s \in Sockets |-> 0]
    /\ opened = {}
    /\ errorSink = <<>>
    /\ dispatched = <<>>
    /\ pingTime = None
    /\ batteryLevel = None
    /\ sensorData = None
    /\ cameraStatus = None
    /\ settings = None
    /\ commandResponse = None
    /\ ws_mounted = "initial"
    /\ ws_status = "disconnected"
    /\ ws_pingTime = None
    /\ ws_socket = FALSE
    /\ ws_readyState = "NONE"
    /\ ws_closeDue = FALSE
    /\ pingLoop = FALSE
    /\ interval = FALSE
    /\ selectedGamepadId = None
    /\ mappings = [a \in Actions |-> Unbound]
    /\ loopMappings = mappings
    /\ buttons = [i \in Controls |-> FALSE]
    /\ axes = [i \in Controls |-> Some(0)]
    /\ ws_calls = <<>>

\* First render: the connection effect (213-386), then the saved-url effect
\* (389-395) whose setCustomWsUrl re-runs the connection effect.
Mount ==
    /\ called' = ""
    /\ mounted = "initial"
    /\ LET load == Truthy(debug_ws_url)
           c1 == RunEffect(Conn, customWsUrl)
           c2 == IF load THEN RunEffect(c1, debug_ws_url) ELSE c1
       IN  /\ SetConn(c2)
           /\ customWsUrl' = IF load THEN debug_ws_url ELSE customWsUrl
    /\ mounted' = "mounted"
    /\ Quiet
    /\ UNCHANGED << reconnectTrigger, debug_ws_url, closeDue, slotVars >>

CanCreate == LastWs(readyState) < MaxSockets

\* lines 198-200: connect() bumps reconnectTrigger, which re-runs the effect
connect ==
    /\ called' = "connect"
    /\ mounted = "mounted" /\ closeDue = NullSocket
    /\ CanCreate
    /\ reconnectTrigger' = reconnectTrigger + 1
    /\ SetConn(RunEffect(Conn, customWsUrl))
    /\ Quiet
    /\ UNCHANGED << mounted, customWsUrl, debug_ws_url, closeDue, slotVars >>

\* Faulty variant: disconnect() also forgets the battery level.
disconnect_ClearsData ==
    /\ called' = "disconnect"
    /\ mounted = "mounted" /\ closeDue = NullSocket
    /\ readyState' = Close(readyState, socketRef)
    /\ batteryLevel' = None
    /\ Quiet
    /\ UNCHANGED << mounted, reconnectTrigger, customWsUrl, debug_ws_url, closeDue,
                    status, socket, pingIntervalRef, socketRef, wsUrl,
                    captured, timers, pingTime, sensorData, cameraStatus,
                    settings, commandResponse >>

\* lines 203-210
disconnect ==
    /\ called' = "disconnect"
    /\ mounted = "mounted" /\ closeDue = NullSocket
    /\ readyState' = Close(readyState, socketRef)
    /\ Quiet
    /\ UNCHANGED << mounted, reconnectTrigger, customWsUrl, debug_ws_url, closeDue,
                    status, socket, pingIntervalRef, socketRef, wsUrl,
                    captured, timers, slotVars >>

\* setCustomWsUrl(url): a changed value re-runs the effect (dependency list,
\* line 386) and is saved (397-405); an equal value is dropped by React.
setCustomWsUrl(url) ==
    /\ called' = "setCustomWsUrl"
    /\ mounted = "mounted" /\ closeDue = NullSocket
    /\ url # customWsUrl
    /\ CanCreate
    /\ customWsUrl' = url
    /\ debug_ws_url' = SaveUrl(url)
    /\ SetConn(RunEffect(Conn, url))
    /\ Quiet
    /\ UNCHANGED << mounted, reconnectTrigger, closeDue, slotVars >>

\* Unmount: the last effect run's cleanup (375-385)
Unmount ==
    /\ called' = ""
    /\ mounted = "mounted" /\ closeDue = NullSocket
    /\ mounted' = "unmounted"
    /\ SetConn(EffectCleanup(Conn, LastWs(readyState)))
    /\ Quiet
    /\ UNCHANGED << reconnectTrigger, customWsUrl, debug_ws_url, closeDue, slotVars >>

\* A frame ws.send() put on the wire of socket s.
Frame(s, name) == [sock |-> s, name |-> name, createdAt |-> now]

FramesOn(frames, s) == {i \in DOMAIN frames : frames[i].sock = s}

\* The step of WebSocketProvider transmits `frames`, in order.
Transmit(frames) ==
    /\ wire' = frames
    /\ UNCHANGED << now, statusVars >>
    /\ firstSent' =
         [s \in Sockets |->
            IF firstSent[s] = None /\ FramesOn(frames, s) # {}
            THEN Some(frames[CHOOSE i \in FramesOn(frames, s) :
                                \A j \in FramesOn(frames, s) : i <= j].name)
            ELSE firstSent[s]]
    /\ registers' =
         [s \in Sockets |->
            registers[s] + Cardinality({i \in FramesOn(frames, s) :
                                          frames[i].name = "client_register"})]

\* Math.round(65 + Math.random() * 25), Math.random() = k / RandomDen
Round(num, den) == (2 * num + den) \div (2 * den)
DummyLevel(k) == Round(65 * RandomDen + k * 25, RandomDen)
RandomDraws == {0, RandomDen - 1}

\* A state setter called after unmount is dropped by React.
SetSlot(old, v) == IF mounted = "unmounted" THEN old ELSE v

\* lines 446-469, as called from ws.onopen (262): the callback the effect run
\* closed over tests the `socket` state of that render, captured[ws].  `rs` is
\* readyState at the call, `before` the frames the handler has sent so far.
requestBatteryLevelOnOpen(ws, rs, before) ==
    IF captured[ws] # NullSocket /\ rs[captured[ws]] = "OPEN"
    THEN /\ Transmit(Append(before, Frame(captured[ws], "battery_request")))
         /\ dispatched' = <<>>
         /\ UNCHANGED batteryLevel
    ELSE \E k \in RandomDraws :
            /\ batteryLevel' = SetSlot(batteryLevel, Some(DummyLevel(k)))
            /\ dispatched' = <<"debug:battery-update">>
            /\ Transmit(before)

\* Faulty variant: the handler registers nothing.
registerData_Missing(ws) == <<>>

\* lines 249-259: the client_register frame ws.onopen sends first
registerData(ws) == <<Frame(ws, "client_register")>>

\* lines 243-279: ws.onopen
onopen(ws) ==
    /\ called' = ""
    /\ closeDue = NullSocket
    /\ readyState[ws] = "CONNECTING"
    /\ readyState' = [readyState EXCEPT ![ws] = "OPEN"]
    /\ opened' = opened \cup {ws}
    /\ status' = SetStatus("connected")
    /\ requestBatteryLevelOnOpen(ws, readyState', registerData(ws))
    /\ pingIntervalRef' = ws
    /\ timers' = timers \cup {ws}
    /\ errorSink' = <<>>
    /\ UNCHANGED << mounted, reconnectTrigger, customWsUrl, debug_ws_url, closeDue,
                    socket, socketRef, wsUrl, captured, pingTime, sensorData,
                    cameraStatus, settings, commandResponse >>

\* lines 281-290: ws.onclose.  Delivered for a socket the server closed, for
\* one that close() put in CLOSING, or right after the socket's error event.
onclose(ws) ==
    /\ called' = ""
    /\ \/ closeDue = NullSocket /\ readyState[ws] \in {"OPEN", "CLOSING"}
       \/ closeDue = ws
    /\ readyState' = [readyState EXCEPT ![ws] = "CLOSED"]
    /\ status' = SetStatus("disconnected")
    /\ timers' = timers \ {pingIntervalRef}
    /\ pingIntervalRef' = NullSocket
    /\ closeDue' = NullSocket
    /\ Quiet
    /\ UNCHANGED << mounted, reconnectTrigger, customWsUrl, debug_ws_url,
                    socket, socketRef, wsUrl, captured, slotVars >>

\* lines 292-299: ws.onerror.  The connection failed: readyState is CLOSED when
\* the event is dispatched and the close event follows.
onerror(ws) ==
    /\ called' = ""
    /\ closeDue = NullSocket
    /\ readyState[ws] \in {"CONNECTING", "OPEN", "CLOSING"}
    /\ readyState' = [readyState EXCEPT ![ws] = "CLOSED"]
    /\ status' = SetStatus("disconnected")
    /\ closeDue' = ws
    /\ errorSink' = <<"WebSocket connection error">>
    /\ wire' = <<>>
    /\ dispatched' = <<>>
    /\ UNCHANGED << mounted, reconnectTrigger, customWsUrl, debug_ws_url, histVars, now,
                    statusVars,
                    socket, socketRef, pingIntervalRef, timers, wsUrl, captured,
                    slotVars >>

\* lines 265-278: one firing of the interval started by ws.onopen
pingInterval(ws) ==
    /\ called' = ""
    /\ closeDue = NullSocket
    /\ ws \in timers
    /\ IF readyState[ws] = "OPEN"
       THEN Transmit(<<Frame(ws, "ping")>>)
       ELSE Transmit(<<>>)
    /\ errorSink' = <<>>
    /\ dispatched' = <<>>
    /\ UNCHANGED << mounted, reconnectTrigger, customWsUrl, debug_ws_url, closeDue,
                    opened, connVars, slotVars >>

\* The guard of every send helper: socket && socket.readyState === WebSocket.OPEN
SocketOpen == socket # NullSocket /\ readyState[socket] = "OPEN"

\* Faulty variant: the helper tests `socket` only, not its readyState.
SendOrLog_NoReadyCheck(fn, name, msg) ==
    /\ called' = fn
    /\ mounted = "mounted" /\ closeDue = NullSocket
    /\ IF socket # NullSocket
       THEN /\ Transmit(<<Frame(socket, name)>>)
            /\ errorSink' = <<>>
       ELSE /\ Transmit(<<>>)
            /\ errorSink' = <<msg>>
    /\ dispatched' = <<>>
    /\ UNCHANGED << mounted, reconnectTrigger, customWsUrl, debug_ws_url, closeDue,
                    opened, connVars, slotVars >>

\* The shape shared by lines 422-443, 472-493 and the helpers after them:
\* send the frame on `socket`, or logError(msg).
SendOrLog(fn, name, msg) ==
    /\ called' = fn
    /\ mounted = "mounted" /\ closeDue = NullSocket
    /\ IF SocketOpen
       THEN /\ Transmit(<<Frame(socket, name)>>)
            /\ errorSink' = <<>>
       ELSE /\ Transmit(<<>>)
            /\ errorSink' = <<msg>>
    /\ dispatched' = <<>>
    /\ UNCHANGED << mounted, reconnectTrigger, customWsUrl, debug_ws_url, closeDue,
                    opened, connVars, slotVars >>

\* lines 408-419: no else branch
sendGamepadState ==
    /\ called' = "sendGamepadState"
    /\ mounted = "mounted" /\ closeDue = NullSocket
    /\ IF SocketOpen
       THEN Transmit(<<Frame(socket, "gamepad_input")>>)
       ELSE Transmit(<<>>)
    /\ errorSink' = <<>>
    /\ dispatched' = <<>>
    /\ UNCHANGED << mounted, reconnectTrigger, customWsUrl, debug_ws_url, closeDue,
                    opened, connVars, slotVars >>

\* lines 422-443
sendRobotCommand == SendOrLog("sendRobotCommand", "robot_command", "Cannot send robot command")

\* lines 446-469, as called by a consumer of the context
requestBatteryLevel ==
    /\ called' = "requestBatteryLevel"
    /\ mounted = "mounted" /\ closeDue = NullSocket
    /\ IF SocketOpen
       THEN /\ Transmit(<<Frame(socket, "battery_request")>>)
            /\ dispatched' = <<>>
            /\ UNCHANGED batteryLevel
       ELSE \E k \in RandomDraws :
               /\ batteryLevel' = Some(DummyLevel(k))
               /\ dispatched' = <<"debug:battery-update">>
               /\ Transmit(<<>>)
    /\ errorSink' = <<>>
    /\ UNCHANGED << mounted, reconnectTrigger, customWsUrl, debug_ws_url, closeDue,
                    opened, connVars, pingTime, sensorData, cameraStatus, settings,
                    commandResponse >>

\* lines 472-493
updateSettings == SendOrLog("updateSettings", "settings_update", "Cannot send settings update")

\* lines 496-516
speakText == SendOrLog("speakText", "speak_text", "Cannot send text to speak")

\* lines 519-539
playSound == SendOrLog("playSound", "play_sound", "Cannot send sound to play")

\* lines 542-544
restartCameraFeed ==
    SendOrLog("restartCameraFeed", "robot_command", "Cannot send robot command")

\* lines 547-566
scanNetworks == SendOrLog("scanNetworks", "network_scan", "Cannot send network scan request")

\* lines 569-590
updateNetwork == SendOrLog("updateNetwork", "network_update", "Cannot send network update")

\* lines 593-614
sendGptCommand == SendOrLog("sendGptCommand", "gpt_command", "Cannot send GPT command")

\* ------------------------------------------------------ inbound frames
\* The text of an inbound frame: not JSON, the JSON text `null`, or a JSON
\* object with a name and, possibly, a data member.  A data member is one
\* number p: data.sentAt, data.level, data.settings or the payload itself.
Payloads == 0..MaxPayload
Times == 0..MaxNow
Names == { "pong", "battery_info", "sensor_data", "camera_status", "settings",
           "command_response", "network_list", "gpt_response", "car_ready" }
NotJson == [text |-> "garbage", name |-> "", data |-> None]
JsonNull == [text |-> "null", name |-> "", data |-> None]
JsonObject(name, data) == [text |-> "object", name |-> name, data |-> data]
RawFrames ==
    {NotJson, JsonNull}
    \cup {JsonObject(n, None) : n \in Names}
    \cup {JsonObject("pong", Some(t)) : t \in Times}
    \cup {JsonObject(n, Some(p)) : n \in Names \ {"pong"}, p \in Payloads}

\* lines 308-357: the case labels of the switch
Handled ==
    { "pong", "battery_info", "sensor_data", "camera_status", "settings",
      "command_response", "network_list", "gpt_response" }

\* JSON.parse(message.data): throws on text that is not JSON
JSONParse(raw) ==
    IF raw.text = "garbage"
    THEN [threw |-> TRUE, isNull |-> FALSE, name |-> "", data |-> None]
    ELSE [threw |-> FALSE, isNull |-> raw.text = "null", name |-> raw.name,
          data |-> raw.data]

\* Whether the try block of lines 302-365 throws: JSON.parse, event.name of
\* null, or a member read of an undefined event.data.
Throws(ev) ==
    \/ ev.threw
    \/ ev.isNull
    \/ /\ ev.name \in {"pong", "battery_info", "settings"}
       /\ ev.data = None

Slots ==
    [ pingTime |-> pingTime, batteryLevel |-> batteryLevel, sensorData |-> sensorData,
      cameraStatus |-> cameraStatus, settings |-> settings,
      commandResponse |-> commandResponse ]

SetSlots(d) ==
    /\ pingTime' = d.pingTime
    /\ batteryLevel' = d.batteryLevel
    /\ sensorData' = d.sensorData
    /\ cameraStatus' = d.cameraStatus
    /\ settings' = d.settings
    /\ commandResponse' = d.commandResponse

\* Faulty variant: the sensor_data case lacks its break and falls through to
\* camera_status.
Dispatch_Fallthrough(ev, d) ==
    CASE ev.name = "pong" -> [d EXCEPT !.pingTime = Some(now - ev.data[1])]
      [] ev.name = "battery_info" -> [d EXCEPT !.batteryLevel = ev.data]
      [] ev.name = "sensor_data" ->
            [d EXCEPT !.sensorData = ev.data, !.cameraStatus = ev.data]
      [] ev.name = "camera_status" -> [d EXCEPT !.cameraStatus = ev.data]
      [] ev.name = "settings" ->
            IF ev.data[1] # 0 THEN [d EXCEPT !.settings = ev.data] ELSE d
      [] ev.name = "command_response" -> [d EXCEPT !.commandResponse = ev.data]
      [] OTHER -> d

\* Faulty variant: a frame of no handled kind is taken for a command response.
Dispatch_DefaultCase(ev, d) ==
    CASE ev.name = "pong" -> [d EXCEPT !.pingTime = Some(now - ev.data[1])]
      [] ev.name = "battery_info" -> [d EXCEPT !.batteryLevel = ev.data]
      [] ev.name = "sensor_data" -> [d EXCEPT !.sensorData = ev.data]
      [] ev.name = "camera_status" -> [d EXCEPT !.cameraStatus = ev.data]
      [] ev.name = "settings" ->
            IF ev.data[1] # 0 THEN [d EXCEPT !.settings = ev.data] ELSE d
      [] ev.name \in {"network_list", "gpt_response"} -> d
      [] OTHER -> [d EXCEPT !.commandResponse = ev.data]

\* Faulty variant: a pong is used only while there is no latency sample yet.
Dispatch_KeepsFirstPong(ev, d) ==
    CASE ev.name = "pong" ->
            IF d.pingTime = None
            THEN [d EXCEPT !.pingTime = Some(now - ev.data[1])]
            ELSE d
      [] ev.name = "battery_info" -> [d EXCEPT !.batteryLevel = ev.data]
      [] ev.name = "sensor_data" -> [d EXCEPT !.sensorData = ev.data]
      [] ev.name = "camera_status" -> [d EXCEPT !.cameraStatus = ev.data]
      [] ev.name = "settings" ->
            IF ev.data[1] # 0 THEN [d EXCEPT !.settings = ev.data] ELSE d
      [] ev.name = "command_response" -> [d EXCEPT !.commandResponse = ev.data]
      [] OTHER -> d

\* lines 307-365: the switch on event.name
Dispatch(ev, d) ==
    CASE ev.name = "pong" -> [d EXCEPT !.pingTime = Some(now - ev.data[1])]
      [] ev.name = "battery_info" -> [d EXCEPT !.batteryLevel = ev.data]
      [] ev.name = "sensor_data" -> [d EXCEPT !.sensorData = ev.data]
      [] ev.name = "camera_status" -> [d EXCEPT !.cameraStatus = ev.data]
      [] ev.name = "settings" ->
            IF ev.data[1] # 0 THEN [d EXCEPT !.settings = ev.data] ELSE d
      [] ev.name = "command_response" -> [d EXCEPT !.commandResponse = ev.data]
      [] OTHER -> d

\* lines 317, 341, 350, 359: window.dispatchEvent
Notify(ev) ==
    CASE ev.name = "battery_info" -> <<"debug:battery-update">>
      [] ev.name = "command_response" -> <<"debug:command-response">>
      [] ev.name = "network_list" -> <<"debug:network-list">>
      [] ev.name = "gpt_response" -> <<"debug:gpt-response">>
      [] OTHER -> <<>>

\* Faulty variant: a frame that does not parse is treated as a transport failure.
catch_Disconnects ==
    /\ errorSink' = <<"Error parsing WebSocket message">>
    /\ dispatched' = <<>>
    /\ status' = "disconnected"
    /\ UNCHANGED << slotVars, socket, pingIntervalRef, socketRef, readyState, wsUrl,
                    captured, timers >>

\* lines 366-372: the catch block
catch ==
    /\ errorSink' = <<"Error parsing WebSocket message">>
    /\ dispatched' = <<>>
    /\ UNCHANGED << slotVars, connVars >>

\* lines 301-373: ws.onmessage
onmessage(ws, raw) ==
    /\ called' = IF raw.text = "object" /\ raw.name \notin Handled
                 THEN "onmessage: no case"
                 ELSE ""
    /\ closeDue = NullSocket
    /\ readyState[ws] = "OPEN"
    /\ LET ev == JSONParse(raw)
       IN  IF Throws(ev)
           THEN catch
           ELSE /\ errorSink' = <<>>
                /\ dispatched' = Notify(ev)
                /\ IF mounted = "unmounted"
                   THEN UNCHANGED slotVars
                   ELSE SetSlots(Dispatch(ev, Slots))
                /\ UNCHANGED connVars
    /\ wire' = <<>>
    /\ UNCHANGED << mounted, reconnectTrigger, customWsUrl, debug_ws_url, closeDue,
                    now, histVars, statusVars >>

\* Time passes.
clock ==
    /\ closeDue = NullSocket /\ ~ws_closeDue
    /\ now < MaxNow
    /\ now' = now + 1
    /\ UNCHANGED << providerVars, statusVars >>

\* ------------------------------------------- WebSocketStatus (part_000)
\* useGamepadContext(): the input sampler behind isActionActive and
\* getAxisValueForAction reads the action's binding and the device.
isActionActive(a) ==
    LET m == mappings[a]
    IN  m.type = "button" /\ m.index # -1 /\ buttons[m.index]

\* None stands for undefined
getAxisValueForAction(a) ==
    LET m == mappings[a]
    IN  IF m.type = "axis" /\ m.index # -1 THEN axes[m.index] ELSE None

\* x ?? d
Nullish(x, d) == IF x = None THEN d ELSE x[1]

\* Faulty variant: an axis binding counts as a button, Unit when the axis is
\* pushed forward.
BipolarValue_AxisAsButton(a) ==
    LET m == loopMappings[a]
    IN  IF m.type = "missing" \/ m.index = -1 THEN 0
        ELSE IF m.type = "button" THEN (IF isActionActive(a) THEN Unit ELSE 0)
        ELSE IF Nullish(getAxisValueForAction(a), 0) > 0 THEN Unit
        ELSE 0

\* lines 113-131 and 133-151: accelerateValue() / brakeValue(); 1 is Unit.
\* The binding is read from the `mappings` of the render that defined this
\* computeSpeed (110-111), the two samplers from functionsRef.current (109).
BipolarValue(a) ==
    LET m == loopMappings[a]
    IN  IF m.type = "missing" \/ m.index = -1 THEN 0
        ELSE IF m.type = "button" THEN (IF isActionActive(a) THEN Unit ELSE 0)
        ELSE IF m.type = "axis" THEN Nullish(getAxisValueForAction(a), 0)
        ELSE 0

\* A JavaScript value with its type: false and 0 are different values.
JsNum(n) == [type |-> "number", value |-> n]
JsBool(b) == [type |-> "boolean", value |-> b]

\* lines 85-106: getActionValue (defined by the component, called nowhere)
getActionValue(a) ==
    LET m == mappings[a]
        neutral == IF a \in {"accelerate", "brake"} THEN JsBool(FALSE) ELSE JsNum(0)
    IN  IF m.type = "missing" \/ m.index = -1 THEN neutral
        ELSE IF m.type = "button" THEN JsBool(isActionActive(a))
        ELSE IF m.type = "axis" THEN JsNum(Nullish(getAxisValueForAction(a), 0))
        ELSE neutral

\* Faulty variant: the two values are added.
computeSpeed_Plus == BipolarValue("accelerate") + BipolarValue("brake")

\* lines 108-154
computeSpeed == BipolarValue("accelerate") - BipolarValue("brake")

\* lines 170-176
gamepadState ==
    [ speed |-> computeSpeed,
      turn |-> Nullish(getAxisValueForAction("turn"), 0),
      turnCameraX |-> Nullish(getAxisValueForAction("turnCameraX"), 0),
      turnCameraY |-> Nullish(getAxisValueForAction("turnCameraY"), 0),
      use |-> isActionActive("use") ]

\* ws.send(): throws InvalidStateError while CONNECTING, transmits while OPEN,
\* discards the data once the socket is CLOSING or CLOSED.
SendOutcome(rs) ==
    CASE rs = "CONNECTING" -> "threw"
      [] rs = "OPEN" -> "sent"
      [] OTHER -> "dropped"

WsSend(name, data) ==
    ws_calls' = << [name |-> name, outcome |-> SendOutcome(ws_readyState),
                    data |-> data] >>

SetWsStatus(v) == IF ws_mounted = "unmounted" THEN ws_status ELSE v

\* Faulty variant: the effect does not depend on mappings.
SendDeps_NoMappings == << ws_socket, ws_status, selectedGamepadId >>

\* lines 188-193: the dependency list of the send effect
SendDeps == << ws_socket, ws_status, selectedGamepadId, mappings >>

\* lines 157-193: the send effect and its cleanup, re-run when socket, status,
\* selectedGamepadId or mappings change: the interval exists exactly while the
\* guard of line 161 lets the effect create one.
\* The interval's callback calls the computeSpeed of the render whose effect
\* run created it, which reads the `mappings` of that render.
SendEffect ==
    /\ interval' = ( /\ ws_mounted' = "mounted"
                     /\ ws_socket'
                     /\ ws_status' = "connected"
                     /\ selectedGamepadId' # None )
    /\ loopMappings' = IF ws_mounted = "initial" \/ SendDeps' # SendDeps
                       THEN mappings'
                       ELSE loopMappings

\* lines 31-83: the mount effect
ws_mount ==
    /\ ws_mounted = "initial"
    /\ ws_mounted' = "mounted"
    /\ ws_readyState' = "CONNECTING"
    /\ ws_socket' = TRUE
    /\ pingLoop' = TRUE
    /\ ws_calls' = <<>>
    /\ UNCHANGED << ws_status, ws_pingTime, ws_closeDue, selectedGamepadId,
                    inputVars, now, providerVars >>
    /\ SendEffect

\* lines 35-38
ws_onopen ==
    /\ ~ws_closeDue
    /\ ws_readyState = "CONNECTING"
    /\ ws_readyState' = "OPEN"
    /\ ws_status' = SetWsStatus("connected")
    /\ ws_calls' = <<>>
    /\ UNCHANGED << ws_mounted, ws_pingTime, ws_socket, ws_closeDue, pingLoop,
                    selectedGamepadId, inputVars, now, providerVars >>
    /\ SendEffect

\* lines 40-43
ws_onclose ==
    /\ \/ ~ws_closeDue /\ ws_readyState \in {"OPEN", "CLOSING"}
       \/ ws_closeDue
    /\ ws_readyState' = "CLOSED"
    /\ ws_status' = SetWsStatus("disconnected")
    /\ ws_closeDue' = FALSE
    /\ ws_calls' = <<>>
    /\ UNCHANGED << ws_mounted, ws_pingTime, ws_socket, pingLoop,
                    selectedGamepadId, inputVars, now, providerVars >>
    /\ SendEffect

\* lines 45-48
ws_onerror ==
    /\ ~ws_closeDue
    /\ ws_readyState \in {"CONNECTING", "OPEN", "CLOSING"}
    /\ ws_readyState' = "CLOSED"
    /\ ws_status' = SetWsStatus("disconnected")
    /\ ws_closeDue' = TRUE
    /\ ws_calls' = <<>>
    /\ UNCHANGED << ws_mounted, ws_pingTime, ws_socket, pingLoop,
                    selectedGamepadId, inputVars, now, providerVars >>
    /\ SendEffect

\* lines 50-63
ws_onmessage(raw) ==
    /\ ~ws_closeDue
    /\ ws_readyState = "OPEN"
    /\ LET ev == JSONParse(raw)
       IN  IF ~ev.threw /\ ~ev.isNull /\ ev.name = "pong" /\ ev.data # None
              /\ ws_mounted # "unmounted"
           THEN ws_pingTime' = Some(now - ev.data[1])
           ELSE UNCHANGED ws_pingTime
    /\ ws_calls' = <<>>
    /\ UNCHANGED << ws_mounted, ws_status, ws_socket, ws_readyState, ws_closeDue,
                    pingLoop, selectedGamepadId, inputVars, now, providerVars >>
    /\ SendEffect

\* lines 67-77: one firing of pingLoop
pingLoopTick ==
    /\ ~ws_closeDue
    /\ pingLoop
    /\ WsSend("ping", [sentAt |-> now])
    /\ UNCHANGED << ws_mounted, ws_status, ws_pingTime, ws_socket, ws_readyState,
                    ws_closeDue, pingLoop, selectedGamepadId, inputVars, now,
                    providerVars >>
    /\ SendEffect

\* lines 163-185: one firing of the send interval
sendInterval ==
    /\ ~ws_closeDue
    /\ interval
    /\ WsSend("gamepad_input", gamepadState)
    /\ UNCHANGED << ws_mounted, ws_status, ws_pingTime, ws_socket, ws_readyState,
                    ws_closeDue, pingLoop, selectedGamepadId, inputVars, now,
                    providerVars >>
    /\ SendEffect

\* lines 79-82 and 187: unmount runs both cleanups
ws_unmount ==
    /\ ~ws_closeDue
    /\ ws_mounted = "mounted"
    /\ ws_mounted' = "unmounted"
    /\ ws_readyState' = IF Live(ws_readyState) THEN "CLOSING" ELSE ws_readyState
    /\ pingLoop' = FALSE
    /\ ws_calls' = <<>>
    /\ UNCHANGED << ws_status, ws_pingTime, ws_socket, ws_closeDue,
                    selectedGamepadId, inputVars, now, providerVars >>
    /\ SendEffect

\* The gamepad context selects or drops a device.
selectGamepad(id) ==
    /\ ~ws_closeDue
    /\ ws_mounted = "mounted"
    /\ id # selectedGamepadId
    /\ selectedGamepadId' = id
    /\ ws_calls' = <<>>
    /\ UNCHANGED << ws_mounted, ws_status, ws_pingTime, ws_socket, ws_readyState,
                    ws_closeDue, pingLoop, inputVars, now, providerVars >>
    /\ SendEffect

\* The operator rebinds an action.
setMapping(a, b) ==
    /\ ws_mounted = "mounted"
    /\ b # mappings[a]
    /\ mappings' = [mappings EXCEPT ![a] = b]
    /\ ws_calls' = <<>>
    /\ UNCHANGED << ws_mounted, ws_status, ws_pingTime, ws_socket, ws_readyState,
                    ws_closeDue, pingLoop, selectedGamepadId, buttons, axes, now,
                    providerVars >>
    /\ SendEffect

\* The device reports a button or an axis.
setButton(i, v) ==
    /\ ws_mounted = "mounted"
    /\ v # buttons[i]
    /\ buttons' = [buttons EXCEPT ![i] = v]
    /\ ws_calls' = <<>>
    /\ UNCHANGED << ws_mounted, ws_status, ws_pingTime, ws_socket, ws_readyState,
                    ws_closeDue, pingLoop, interval, loopMappings,
                    selectedGamepadId, mappings, axes, now, providerVars >>

setAxis(i, v) ==
    /\ ws_mounted = "mounted"
    /\ v # axes[i]
    /\ axes' = [axes EXCEPT ![i] = v]
    /\ ws_calls' = <<>>
    /\ UNCHANGED << ws_mounted, ws_status, ws_pingTime, ws_socket, ws_readyState,
                    ws_closeDue, pingLoop, interval, loopMappings,
                    selectedGamepadId, mappings, buttons, now, providerVars >>

\* WebSocketProvider's connection lifecycle, its heartbeat and the two send
\* helpers that do not log.
Next ==
    \/ Mount
    \/ connect
    \/ disconnect
    \/ \E url \in {None} \cup {Some(u) : u \in UrlInputs} : setCustomWsUrl(url)
    \/ Unmount
    \/ \E ws \in Sockets : onopen(ws)
    \/ \E ws \in Sockets : onclose(ws)
    \/ \E ws \in Sockets : onerror(ws)
    \/ \E ws \in Sockets : pingInterval(ws)
    \/ sendGamepadState
    \/ requestBatteryLevel

Spec == Init /\ [][Next]_vars

\* The send helpers over the sockets of one mount.
NextSend ==
    \/ Mount
    \/ disconnect
    \/ \E ws \in Sockets : onopen(ws)
    \/ \E ws \in Sockets : onclose(ws)
    \/ \E ws \in Sockets : onerror(ws)
    \/ sendGamepadState
    \/ sendRobotCommand
    \/ requestBatteryLevel
    \/ updateSettings
    \/ speakText
    \/ playSound
    \/ restartCameraFeed
    \/ scanNetworks
    \/ updateNetwork
    \/ sendGptCommand

SpecSend == Init /\ [][NextSend]_vars

\* The protocol dispatcher over one connection: the sockets of the first
\* render, their open and close events, the heartbeat and the inbound frames.
NextDispatch ==
    \/ Mount
    \/ \E ws \in Sockets : onopen(ws)
    \/ \E ws \in Sockets : onclose(ws)
    \/ \E ws \in Sockets : pingInterval(ws)
    \/ \E ws \in Sockets, raw \in RawFrames : onmessage(ws, raw)
    \/ clock

SpecDispatch == Init /\ [][NextDispatch]_vars

\* WebSocketStatus: its socket, pingLoop and send interval.
NextStatus ==
    \/ ws_mount
    \/ ws_onopen
    \/ ws_onclose
    \/ ws_onerror
    \/ \E raw \in RawFrames : ws_onmessage(raw)
    \/ pingLoopTick
    \/ sendInterval
    \/ \E id \in {None, Some("pad")} : selectGamepad(id)
    \/ ws_unmount
    \/ clock

SpecStatus == Init /\ [][NextStatus]_vars

\* WebSocketStatus with the accelerate and brake bindings and the device
\* varying.
NextBridge ==
    \/ ws_mount
    \/ ws_onopen
    \/ \E id \in {None, Some("pad")} : selectGamepad(id)
    \/ \E a \in {"accelerate", "brake"} : \E b \in Bindings(a) : setMapping(a, b)
    \/ \E i \in Controls, v \in BOOLEAN : setButton(i, v)
    \/ \E i \in Controls, v \in AxisReads : setAxis(i, v)
    \/ sendInterval

SpecBridge == Init /\ [][NextBridge]_vars

\* WebSocketStatus with every action rebound over control 0 and that control
\* varying.
NextNormalize ==
    \/ ws_mount
    \/ ws_onopen
    \/ \E id \in {None, Some("pad")} : selectGamepad(id)
    \/ \E a \in Actions :
          \E b \in {Unbound, Missing, Binding("button", 0), Binding("axis", 0)} :
             setMapping(a, b)
    \/ \E v \in BOOLEAN : setButton(0, v)
    \/ \E v \in AxisReads : setAxis(0, v)
    \/ sendInterval

SpecNormalize == Init /\ [][NextNormalize]_vars

\* WebSocketProvider's message handler on the sockets of one mount, the clock
\* standing still.
NextSlots ==
    \/ Mount
    \/ \E ws \in Sockets : onopen(ws)
    \/ \E ws \in Sockets, raw \in RawFrames : onmessage(ws, raw)

SpecSlots == Init /\ [][NextSlots]_vars

\* Inbound frames of every kind, the pongs with every timestamp and the
\* other kinds with one payload.
LatencyFrames ==
    {raw \in RawFrames : raw.name = "pong" \/ raw.data \in {None, Some(0)}}

\* The two message handlers, WebSocketProvider's and WebSocketStatus's, each
\* on an open socket, with the clock running.
NextLatency ==
    \/ Mount
    \/ \E ws \in Sockets : onopen(ws)
    \/ \E ws \in Sockets, raw \in LatencyFrames : onmessage(ws, raw)
    \/ ws_mount
    \/ ws_onopen
    \/ \E raw \in LatencyFrames : ws_onmessage(raw)
    \/ clock

SpecLatency == Init /\ [][NextLatency]_vars

-----------------------------------------------------------------------------
\* Properties of the connection lifecycle.

LiveSockets == {s \in Sockets : Live(readyState[s])}

\* C1: at any time the Provider owns at most one live (CONNECTING or OPEN)
\* WebSocket, and that one is the socket it created last.
C1_AtMostOneLiveSocket ==
    /\ Cardinality(LiveSockets) <= 1
    /\ LiveSockets \subseteq {socketRef}

C1_Witness ==
    /\ reconnectTrigger = 2
    /\ LiveSockets = {socket}
    /\ \E s \in Sockets : s # socket /\ readyState[s] \in {"CLOSING", "CLOSED"}

\* C2: status never moves from disconnected to connected without passing
\* through connecting.
C2_NeverDisconnectedToConnected ==
    [][~(status = "disconnected" /\ status' = "connected")]_vars

\* C3: on every socket that has opened, exactly one client_register frame
\* was sent and it was the first frame on that socket; nothing is sent on a
\* socket that has not opened, and a socket's heartbeat runs only after its
\* registration.
C3_RegisterFirstOnce ==
    /\ \A s \in opened : registers[s] = 1 /\ firstSent[s] = Some("client_register")
    /\ \A s \in Sockets \ opened : registers[s] = 0 /\ firstSent[s] = None
    /\ \A s \in timers : registers[s] = 1
    /\ \A i \in DOMAIN wire :
          wire[i].name = "ping" => registers[wire[i].sock] = 1

C3_Witness ==
    \E s \in opened :
        /\ wire # <<>>
        /\ wire[1].name = "ping" /\ wire[1].sock = s
        /\ registers[s] = 1

\* C4: a ping is sent only while the status is connected.
C4_PingOnlyWhileConnected ==
    \A i \in DOMAIN ws_calls :
        ws_calls[i].name = "ping" => ws_status = "connected"

\* C5: a gamepad_input frame is transmitted only while the status is
\* connected.
C5_GamepadOnlyWhileConnected ==
    \A i \in DOMAIN wire :
        wire[i].name = "gamepad_input" => status = "connected"

Created == {s \in Sockets : readyState[s] # "NONE"}

\* C6: once the status is disconnected, it stays disconnected and no socket
\* is created as long as connect() is not called (and the URL override is
\* left alone).
C6_StaysDisconnected ==
    [][(/\ status = "disconnected"
        /\ reconnectTrigger' = reconnectTrigger
        /\ customWsUrl' = customWsUrl)
       => (status' = "disconnected" /\ Created' = Created)]_vars

\* C7 as stated: changing the URL override while a socket is connecting or
\* open neither closes that socket nor opens a new one.
C7_UrlChangeKeepsSocket ==
    [][(/\ mounted = "mounted"
        /\ LiveSockets # {}
        /\ customWsUrl' # customWsUrl)
       => readyState' = readyState]_vars

Blank(str) == \A i \in DOMAIN str : str[i] = " "

ExpectedUrl(custom) ==
    IF custom = None \/ Blank(custom[1]) THEN DefaultUrl ELSE custom[1]

\* C7: changing the URL override to a different value while a socket is
\* connecting or open closes that socket and at once creates the next one,
\* whose endpoint is the new override if it is not blank and the default
\* endpoint otherwise; the endpoint of a socket is resolved when the socket
\* is created and never changes afterwards.
C7_UrlChangeReconnects ==
    [][/\ (/\ mounted = "mounted"
           /\ LiveSockets # {}
           /\ customWsUrl' # customWsUrl)
          => /\ \A s \in LiveSockets : readyState'[s] = "CLOSING"
             /\ socket' \notin Created
             /\ Created' = Created \cup {socket'}
             /\ readyState'[socket'] = "CONNECTING"
             /\ wsUrl'[socket'] = ExpectedUrl(customWsUrl')
       /\ \A s \in Created : wsUrl'[s] = wsUrl[s]
       /\ \A s \in Created' \ Created :
             wsUrl'[s] = ExpectedUrl(IF s = socket' THEN customWsUrl' ELSE customWsUrl)]_vars

C7_Witness ==
    /\ called = "setCustomWsUrl"
    /\ reconnectTrigger = 0
    /\ customWsUrl = Some(<<" ">>)
    /\ \E s \in opened : readyState[s] = "CLOSING" /\ wsUrl[s] = <<"a">>
    /\ readyState[socket] = "CONNECTING" /\ wsUrl[socket] = DefaultUrl

\* C8: a frame that fails to parse leaves the status, the latency, every
\* data slot, every socket and the heartbeat as they were; the handler
\* reports the failure and returns, and the socket goes on receiving.
C8_MalformedFrameIgnored ==
    [][errorSink' = <<"Error parsing WebSocket message">>
       => /\ UNCHANGED << status, slotVars, socket, socketRef, readyState,
                          timers, pingIntervalRef >>
          /\ wire' = <<>>
          /\ dispatched' = <<>>
          /\ closeDue' = NullSocket
          /\ \E ws \in Sockets : readyState'[ws] = "OPEN"]_vars

C8_Witness ==
    /\ errorSink = <<"Error parsing WebSocket message">>
    /\ status = "connected"
    /\ readyState[socket] = "OPEN"
    /\ socket \in timers
    /\ batteryLevel # None
    /\ pingTime # None

-----------------------------------------------------------------------------
\* Properties of the send helpers.

SendFns ==
    { "sendGamepadState", "sendRobotCommand", "requestBatteryLevel",
      "updateSettings", "speakText", "playSound", "restartCameraFeed",
      "scanNetworks", "updateNetwork", "sendGptCommand" }

SilentFns == { "sendGamepadState", "requestBatteryLevel" }

\* C9 as stated: a send helper called while the socket is not open transmits
\* nothing, reports the failure to the logging sink and leaves the status
\* and every data slot unchanged.
C9_SkippedSendLogs ==
    [][(called' \in SendFns /\ ~SocketOpen)
       => /\ wire' = <<>>
          /\ errorSink' # <<>>
          /\ UNCHANGED << status, slotVars >>]_vars

\* C9: a send helper called while the socket is not open transmits nothing,
\* and a frame on the wire after a helper's call is the one frame of that
\* call, made while the socket was open.  The skipped call leaves the
\* connection unchanged.  Every helper but two reports the failure to the
\* logging sink and leaves the data slots unchanged; sendGamepadState
\* reports nothing and changes nothing; requestBatteryLevel reports nothing,
\* writes a made-up level between 65 and 90 to the battery slot and emits
\* debug:battery-update.
C9_SkippedSend ==
    [][/\ (called' \in SendFns /\ ~SocketOpen)
          => /\ wire' = <<>>
             /\ UNCHANGED << connVars, pingTime, sensorData, cameraStatus,
                             settings, commandResponse >>
             /\ called' \notin SilentFns
                   => /\ errorSink' # <<>>
                      /\ dispatched' = <<>>
                      /\ batteryLevel' = batteryLevel
             /\ called' = "sendGamepadState"
                   => /\ errorSink' = <<>>
                      /\ dispatched' = <<>>
                      /\ batteryLevel' = batteryLevel
             /\ called' = "requestBatteryLevel"
                   => /\ errorSink' = <<>>
                      /\ dispatched' = <<"debug:battery-update">>
                      /\ batteryLevel' # None
                      /\ batteryLevel'[1] \in 65..90
       /\ (called' \in SendFns /\ wire' # <<>>)
          => /\ SocketOpen
             /\ Len(wire') = 1
             /\ wire'[1].sock = socket
             /\ errorSink' = <<>>]_vars

C9_Witness ==
    /\ called = "sendRobotCommand"
    /\ errorSink = <<"Cannot send robot command">>
    /\ wire = <<>>
    /\ ~SocketOpen
    /\ socket # NullSocket

-----------------------------------------------------------------------------
\* Properties of the command composed from the gamepad.

\* The value of an action as the gamepad shows it: a bound button counts
\* Unit when pressed, a bound axis its raw reading (0 when the device gives
\* none), anything else 0.
ExpectedValue(a) ==
    LET m == mappings[a]
    IN  CASE m.type = "button" /\ m.index \in Controls ->
                 IF buttons[m.index] THEN Unit ELSE 0
          [] m.type = "axis" /\ m.index \in Controls ->
                 IF axes[m.index] = None THEN 0 ELSE axes[m.index][1]
          [] OTHER -> 0

\* C10: the speed of every gamepad_input frame is the value of accelerate
\* minus the value of brake, for every pair of bindings and every device
\* state.
C10_SpeedIsAccelerateMinusBrake ==
    \A i \in DOMAIN ws_calls :
        ws_calls[i].name = "gamepad_input"
            => ws_calls[i].data.speed = ExpectedValue("accelerate") - ExpectedValue("brake")

C10_Witness ==
    /\ mappings["accelerate"] = Binding("button", 0)
    /\ mappings["brake"] = Binding("button", 1)
    /\ buttons[0] /\ buttons[1]
    /\ ws_calls # <<>>
    /\ ws_calls[1].name = "gamepad_input"
    /\ ws_calls[1].data.speed = 0

\* C11: the speed of every gamepad_input frame lies between -1 and 1 (the
\* axis values of the device all lie in that range).
C11_SpeedInRange ==
    \A i \in DOMAIN ws_calls :
        ws_calls[i].name = "gamepad_input"
            => ws_calls[i].data.speed \in (0 - Unit)..Unit

IsUnbound(a) == mappings[a].type # "missing" /\ mappings[a].index = -1

NeutralValue(a) == IF a = "use" THEN JsBool(FALSE) ELSE JsNum(0)

\* C12: for every action whose binding is unbound, the normalizer returns
\* the neutral value of the action's class whatever the device shows: the
\* number 0 for accelerate, brake, turn, turnCameraX and turnCameraY, the
\* boolean false for use; and the composed frame carries that value.
C12_UnboundIsNeutral ==
    /\ \A a \in Actions :
          (ws_mounted = "mounted" /\ IsUnbound(a)) => getActionValue(a) = NeutralValue(a)
    /\ \A a \in {"accelerate", "brake"} : IsUnbound(a) => BipolarValue(a) = 0
    /\ \A i \in DOMAIN ws_calls :
          ws_calls[i].name = "gamepad_input"
             => /\ \A a \in {"turn", "turnCameraX", "turnCameraY"} :
                      IsUnbound(a) => ws_calls[i].data[a] = 0
                /\ IsUnbound("use") => ws_calls[i].data.use = FALSE

AxisBound(a) == mappings[a].type = "axis" /\ mappings[a].index \in Controls

\* The raw reading of the axis the action is bound to, 0 when the device
\* gives none.
RawOrZero(a) ==
    LET r == axes[mappings[a].index]
    IN  IF r = None THEN 0 ELSE r[1]

-----------------------------------------------------------------------------
\* Properties of the inbound dispatch.

IsPong(raw) == raw.text = "object" /\ raw.name = "pong" /\ raw.data # None

\* C14: a pong received at time now with data.sentAt = T sets the latency to
\* now - T, whatever the latency was; every other inbound frame leaves the
\* latency as it was, and nothing but a pong changes it.  This holds for the
\* latency of WebSocketProvider and for that of WebSocketStatus.
C14_LatencyFromLastPong ==
    [][/\ \A ws \in Sockets, raw \in LatencyFrames :
             onmessage(ws, raw)
                => pingTime' = IF IsPong(raw) THEN Some(now - raw.data[1])
                                              ELSE pingTime
       /\ \A raw \in LatencyFrames :
             ws_onmessage(raw)
                => ws_pingTime' = IF IsPong(raw) THEN Some(now - raw.data[1])
                                                 ELSE ws_pingTime
       /\ pingTime' # pingTime
             => \E ws \in Sockets, raw \in LatencyFrames :
                    IsPong(raw) /\ onmessage(ws, raw)
       /\ ws_pingTime' # ws_pingTime
             => \E raw \in LatencyFrames : IsPong(raw) /\ ws_onmessage(raw)]_vars

C14_Witness ==
    /\ now = MaxNow
    /\ pingTime = Some(MaxNow)
    /\ ws_pingTime = Some(0)
    /\ batteryLevel # None

\* C15: an inbound frame that parses to an object whose name is none of the
\* handled kinds changes nothing: the status, the latency, every data slot,
\* the sockets and the heartbeat stay as they were, nothing is sent, nothing
\* is dispatched and nothing is logged.
C15_UnknownKindIgnored ==
    [][called' = "onmessage: no case"
       => /\ UNCHANGED << status, slotVars, socket, socketRef, readyState,
                          timers, pingIntervalRef >>
          /\ wire' = <<>>
          /\ dispatched' = <<>>
          /\ errorSink' = <<>>]_vars

C15_Witness ==
    /\ called = "onmessage: no case"
    /\ status = "connected"
    /\ pingTime # None
    /\ batteryLevel # None
    /\ commandResponse # None

SlotKinds ==
    {"battery_info", "sensor_data", "camera_status", "settings", "command_response"}

SlotOf(name) ==
    CASE name = "battery_info" -> "batteryLevel"
      [] name = "sensor_data" -> "sensorData"
      [] name = "camera_status" -> "cameraStatus"
      [] name = "settings" -> "settings"
      [] name = "command_response" -> "commandResponse"

SlotFrames == {JsonObject(n, Some(p)) : n \in SlotKinds, p \in Payloads}

\* C16 as stated: every frame of a kind that has a slot overwrites that slot
\* with the received payload and changes no other slot, the latency or the
\* status.
C16_EveryFrameOverwrites ==
    [][\A ws \in Sockets, raw \in SlotFrames :
          onmessage(ws, raw)
             => /\ Slots' = [Slots EXCEPT ![SlotOf(raw.name)] = raw.data]
                /\ status' = status]_vars

\* C16: a battery_info, sensor_data, camera_status or command_response frame
\* overwrites its own slot with what it carries, every time; a settings
\* frame overwrites the settings slot with data.settings when that is truthy
\* and changes nothing when it is not (payload 0 stands for a frame whose
\* data.settings is missing or falsy).  No frame of these kinds changes
\* another slot, the latency, the status or a socket.
C16_SlotFrameOverwritesOwnSlot ==
    [][\A ws \in Sockets, raw \in SlotFrames :
          onmessage(ws, raw)
             => /\ Slots' = IF raw.name = "settings" /\ raw.data = Some(0)
                            THEN Slots
                            ELSE [Slots EXCEPT ![SlotOf(raw.name)] = raw.data]
                /\ UNCHANGED << status, socket, readyState, timers >>]_vars

C16_Witness ==
    /\ dispatched = <<"debug:command-response">>
    /\ commandResponse = Some(MaxPayload)
    /\ batteryLevel = Some(0)
    /\ sensorData # None /\ cameraStatus # None /\ settings # None
    /\ pingTime # None
    /\ status = "connected"

-----------------------------------------------------------------------------
\* Properties of disconnect() and of the heartbeat timer.

\* C17: disconnect() called while no socket is connecting or open changes
\* nothing: the status, the sockets, the heartbeat timer and the data slots
\* are unchanged and nothing is sent or logged; and a disconnect() that
\* directly follows a disconnect() changes nothing either.
C17_DisconnectIdempotent ==
    [][(called' = "disconnect" /\ (LiveSockets = {} \/ called = "disconnect"))
       => /\ UNCHANGED << connVars, slotVars >>
          /\ wire' = <<>>
          /\ errorSink' = <<>>
          /\ dispatched' = <<>>]_vars

C17_Witness ==
    /\ called = "disconnect"
    /\ socketRef # NullSocket
    /\ readyState[socketRef] = "CLOSED"
    /\ status = "disconnected"
    /\ batteryLevel # None

\* C18: when the status becomes disconnected, no heartbeat timer remains
\* armed.
C18_NoTimerOnceDisconnected ==
    [][(ws_status # "disconnected" /\ ws_status' = "disconnected") => ~pingLoop']_vars

\* C19: while the current socket is open the status is connected and the
\* socket's heartbeat is armed, whatever events arrive for sockets it has
\* replaced.
C19_StaleEventsIgnored ==
    (mounted = "mounted" /\ socket # NullSocket /\ readyState[socket] = "OPEN")
       => (status = "connected" /\ socket \in timers)

\* C20: the heartbeat of the current socket, once running, keeps running for
\* as long as that socket stays open and stays the current one.
C20_HeartbeatKeepsRunning ==
    [][(/\ mounted = "mounted" /\ mounted' = "mounted"
        /\ socket # NullSocket
        /\ readyState[socket] = "OPEN"
        /\ socket \in timers
        /\ socket' = socket
        /\ readyState'[socket] = "OPEN")
       => socket \in timers']_vars

\* ------------------------------------------------------------------ C21
\* C21: when a socket opens, the open handler sends client_register and then
\* battery_request on that socket, on the first connection and on every
\* reconnection, and does not write the battery slot itself.
C21_BatteryRequestOnOpen ==
    [][\A ws \in Sockets :
          (readyState[ws] = "CONNECTING" /\ readyState'[ws] = "OPEN") =>
             /\ wire' = <<Frame(ws, "client_register"), Frame(ws, "battery_request")>>
             /\ batteryLevel' = batteryLevel]_vars

\* ------------------------------------------------------------------ C22
\* The latest transmission was a ping on ws: its timestamp, wire[1].createdAt,
\* is that of the most recently sent ping.
JustPinged(ws) == Len(wire) = 1 /\ wire[1].sock = ws /\ wire[1].name = "ping"

\* C22: a pong whose data.sentAt is not the timestamp of the most recently
\* sent ping does not update the latency.  Checked on the pongs that arrive
\* right after a ping was sent.
C22_OnlyMatchingPongUpdates ==
    [][\A ws \in Sockets : \A raw \in RawFrames :
          (/\ JustPinged(ws)
           /\ IsPong(raw)
           /\ raw.data[1] # wire[1].createdAt
           /\ onmessage(ws, raw))
          => pingTime' = pingTime]_vars

\* ------------------------------------------------------------------ C23
\* The axis field of action a as the bindings and the device give it now.
CurrentAxis(a) == IF AxisBound(a) THEN RawOrZero(a) ELSE 0

\* The frame the bindings and the device give now.
CurrentSnapshot ==
    [ speed |-> ExpectedValue("accelerate") - ExpectedValue("brake"),
      turn |-> CurrentAxis("turn"),
      turnCameraX |-> CurrentAxis("turnCameraX"),
      turnCameraY |-> CurrentAxis("turnCameraY"),
      use |-> ( /\ mappings["use"].type = "button"
                /\ mappings["use"].index \in Controls
                /\ buttons[mappings["use"].index] ) ]

\* C23: every gamepad_input frame is computed, all fields together, from the
\* bindings and the device state current at the tick that sends it; while the
\* loop is armed the bindings its callback holds are the current ones, so the
\* first tick after a change already uses the new value.
C23_FrameFromCurrentInputs ==
    /\ interval => loopMappings = mappings
    /\ \A i \in DOMAIN ws_calls :
          ws_calls[i].name = "gamepad_input" => ws_calls[i].data = CurrentSnapshot

C23_Witness ==
    /\ interval
    /\ mappings["accelerate"] = Binding("button", 0)
    /\ mappings["turn"] = Binding("axis", 0)
    /\ mappings["use"] = Binding("button", 0)
    /\ mappings["brake"] = Unbound
    /\ buttons[0]
    /\ axes[0] = Some(Unit)
    /\ ws_calls # <<>>
    /\ ws_calls[1].name = "gamepad_input"
    /\ ws_calls[1].data.speed = Unit
    /\ ws_calls[1].data.turn = Unit
    /\ ws_calls[1].data.use

====
